---------------------------- MODULE Spec2Model ----------------------------
(***************************************************************************)
(* A model of the invocation engine of labthings-fastapi                   *)
(* (src/labthings_fastapi/actions.py): the Invocation thread and its run() *)
(* method, the ThreadLogHandler attached to the root logger, and the       *)
(* ActionManager registry with its list and get-by-id queries.             *)
(*                                                                         *)
(* Every `with lock:` block of the source is two steps: the acquisition    *)
(* (which blocks while another thread holds the lock) and the body         *)
(* together with the release.  Python's None is the string "None" for      *)
(* values and NoTime for timestamps.  datetime.now() is read from a clock  *)
(* that never runs backwards.                                              *)
(***************************************************************************)
EXTENDS Integers, Sequences, FiniteSets, TLC

\* ------------------------------------------------------------------ bounds
\* Capacity of an invocation's log (log_len of Invocation.__init__, 1000 there).
log_len == 2
\* Number of log calls one action body may make.
MaxEmit == 2
\* Last value of the clock.
MaxTime == 1

\* ------------------------------------------------------- program constants
\* timestamp None
NoTime == -1
\* logging.INFO, the level of a ThreadLogHandler, and logging.ERROR
INFO == 20
ERROR == 40

\* The Invocation objects the dispatcher may construct, by id (uuid4: no two
\* objects share an id), in the order of their construction.
Ids == {1, 2}
\* Request-handling threads of the API layer (callers of the ActionManager):
\* two dispatch actions and request stops, the other polls.
Dispatchers == {1, 3}
Pollers == {2}
Clients == Dispatchers \cup Pollers
\* Thread identifiers (threading.get_ident) of execution threads: an identifier
\* is unique among the threads alive, and may be given again once its thread
\* has exited.
Idents == Ids
NoIdent == 0
ClientIdent(c) == Cardinality(Ids) + c

None == "None"
\* The things the server holds and the action they have.
Things == {"stageA", "stageB"}
Actions == {"move"}
\* What an action may be given: no input (None) or a pydantic model.
Inputs == {None, "model"}
\* What an action may return.
Values == {None, "v"}
\* Exceptions an action body may raise (subclasses of Exception).
NoExc == [cls |-> "", arg |-> ""]
Exceptions == {[cls |-> "ValueError", arg |-> "boom"], [cls |-> "KeyError", arg |-> "k"]}
\* repr of a string argument
Repr(s) == IF s = "k" THEN "'k'" ELSE IF s = "boom" THEN "'boom'" ELSE "''"
\* str(e): the argument of the exception; KeyError shows the repr of its key.
Str(e) == IF e.cls = "KeyError" THEN Repr(e.arg) ELSE e.arg

\* Levels of the records an action body or a client emits: one below the
\* handler's level too.
Levels == {INFO - 10, INFO}

\* Threads: execution threads of invocations and client threads.
Free == <<"free", 0>>
InvThread(i) == <<"inv", i>>
ClientThread(c) == <<"client", c>>

\* How the call of the bound action ended: a value returned (val), an
\* exception raised (exc), or SystemExit raised with the stop flag as the body
\* last saw it (stop).
NoOutcome == [kind |-> "none", val |-> None, exc |-> NoExc, stop |-> FALSE]

VARIABLES
    invocations,    \* ActionManager._invocations: the ids, in insertion order
    invocations_lock, \* ActionManager._invocations_lock: its holder
    nobj,           \* number of Invocation objects constructed (ids 1..nobj)
    status,         \* Invocation._status
    return_value,   \* Invocation._return_value
    request_time,   \* Invocation._request_time
    start_time,     \* Invocation._start_time
    end_time,       \* Invocation._end_time
    input,          \* Invocation.input
    action_ref,     \* the action Invocation.action_ref refers to
    thing_ref,      \* the thing Invocation.thing_ref refers to
    stopping,       \* Invocation.stopping (Event)
    refs_alive,     \* whether action_ref() and thing_ref() still resolve
    log,            \* Invocation._log (deque)
    status_lock,    \* Invocation._status_lock: its holder
    root_handlers,  \* invocations whose ThreadLogHandler is on the root logger
    ident,          \* Thread.ident of the execution thread
    tpc,            \* position of the execution thread in run()
    outcome,        \* how the call of the bound action ended
    emitted,        \* number of records the execution thread has emitted
    captured,       \* every record the invocation's handler has been given
    now,            \* the clock read by datetime.now()
    cpc,            \* position of each client thread
    ctx,            \* locals of each client thread's current call
    returned,       \* invocations invoke_action has returned
    budget          \* what this behaviour explores (it never changes)

vars == <<invocations, invocations_lock, nobj, status, return_value, request_time,
          start_time, end_time, input, action_ref, thing_ref, stopping, refs_alive, log, status_lock,
          root_handlers, ident, tpc, outcome, emitted, captured, now, cpc, ctx,
          returned, budget>>

NoView == [status |-> "none", timeStarted |-> NoTime, timeCompleted |-> NoTime,
           output |-> None, id |-> 0]
\* The locals of a client's call: the call (op), the invocation it works on
\* (target), the InvocationModel being built (view), and for list_invocations
\* the copy still to go through (todo) and the ids listed so far (views).
\* When the call ends its locals are gone; how it ended stays (result), and
\* so does what a list call returned (listed), in the behaviours that compare
\* two list calls.
NoList == [made |-> FALSE, ids |-> <<>>]
IdleCtx == [op |-> "none", target |-> 0, view |-> NoView, todo |-> <<>>,
            views |-> <<>>, result |-> "none", as_responses |-> FALSE,
            listed |-> NoList]
Returned(r) == [IdleCtx EXCEPT !.result = r]



\* The behaviours explored. A behaviour has a budget: how many invocations are
\* dispatched (inv), whether the polling client calls (poll), how far the clock
\* runs (time), how many records an action body logs (emit), the ways an
\* action body may end (kinds), whether references may die (drop), and
\* whether the behaviour is one of listing (list): two clients dispatch any
\* action of any thing at the same time while the polling client lists, every
\* time with the same filters (action, thing), every input is None (the
\* default of Invocation.__init__) and no stop is requested.
\* Elsewhere one client dispatches, each invocation for a thing of its own,
\* and lists have no filter. In the behaviours of starting (start) the two
\* dispatching clients also call start() on the handles they hold.
Kinds == {"return", "SystemExit", "Exception", "BaseException"}
Scenarios ==
    { \* one invocation, its execution thread against the poller and the clock
      [inv |-> 1, poll |-> TRUE, time |-> MaxTime, emit |-> MaxEmit,
       kinds |-> Kinds, drop |-> TRUE, list |-> FALSE, start |-> FALSE, action |-> None,
       thing |-> None],
      \* all the invocations, their execution threads against each other
      [inv |-> Cardinality(Ids), poll |-> FALSE, time |-> 0, emit |-> MaxEmit,
       kinds |-> Kinds, drop |-> TRUE, list |-> FALSE, start |-> FALSE, action |-> None,
       thing |-> None],
      \* all the invocations, the dispatcher against the poller
      [inv |-> Cardinality(Ids), poll |-> TRUE, time |-> 0, emit |-> 0,
       kinds |-> {"return"}, drop |-> FALSE, list |-> FALSE, start |-> FALSE, action |-> None,
       thing |-> None],
      \* one invocation, started by invoke_action and by holders of its handle
      [inv |-> 1, poll |-> FALSE, time |-> 0, emit |-> 0, kinds |-> Kinds,
       drop |-> FALSE, list |-> FALSE, start |-> TRUE, action |-> None,
       thing |-> None] }
    \cup \* all the invocations, two dispatchers against each other and the lists
    { [inv |-> Cardinality(Ids), poll |-> FALSE, time |-> 0, emit |-> 0,
       kinds |-> {"return"}, drop |-> FALSE, list |-> TRUE, start |-> FALSE, action |-> a,
       thing |-> t] : a \in {None} \cup Actions, t \in {None} \cup Things }

Init ==
    /\ invocations = <<>>
    /\ invocations_lock = Free
    /\ nobj = 0
    /\ status = [i \in Ids |-> "none"]
    /\ return_value = [i \in Ids |-> None]
    /\ request_time = [i \in Ids |-> NoTime]
    /\ start_time = [i \in Ids |-> NoTime]
    /\ end_time = [i \in Ids |-> NoTime]
    /\ input = [i \in Ids |-> None]
    /\ action_ref = [i \in Ids |-> None]
    /\ thing_ref = [i \in Ids |-> None]
    /\ stopping = [i \in Ids |-> FALSE]
    /\ refs_alive = [i \in Ids |-> TRUE]
    /\ log = [i \in Ids |-> <<>>]
    /\ status_lock = [i \in Ids |-> Free]
    /\ root_handlers = {}
    /\ ident = [i \in Ids |-> NoIdent]
    /\ tpc = [i \in Ids |-> "none"]
    /\ outcome = [i \in Ids |-> NoOutcome]
    /\ emitted = [i \in Ids |-> 0]
    /\ captured = [i \in Ids |-> <<>>]
    /\ now = 0
    /\ cpc = [c \in Clients |-> "idle"]
    /\ ctx = [c \in Clients |-> IdleCtx]
    /\ returned = {}
    /\ budget \in Scenarios

\* ------------------------------------------------------------ the log sink
\* (mutant) a full buffer takes no more records: the newest is dropped.
DequeAppend_dropNewest(d, x) ==
    IF Len(d) >= log_len THEN d ELSE Append(d, x)

\* deque(maxlen=log_len).append: the oldest record is dropped once full.
DequeAppend(d, x) ==
    LET s == Append(d, x)
    IN  IF Len(s) > log_len THEN Tail(s) ELSE s

\* ThreadLogHandler.check_thread, for the handler of invocation h: the emitting
\* thread's identifier against the identifier the handler was built with.
check_thread(h, emitter_ident) == emitter_ident = ident[h]

\* The lock ThreadLogHandler.emit takes: self.lock, which __init__ never sets
\* from its `lock` argument, so it is the handler's own lock made by
\* logging.Handler.__init__, not the invocation's _status_lock.
EmitLock(h) == <<"handler", h>>

\* Whether the lock emit takes for handler h is free for thread t.
EmitLockFree(h, t) ==
    \/ EmitLock(h) # <<"status", h>>
    \/ status_lock[h] \in {Free, t}

\* The handlers of the root logger that take a record of level lvl emitted by
\* a thread of identifier id (Logger.callHandlers, Handler.handle).
Takers(id, lvl) ==
    {h \in root_handlers : lvl >= INFO /\ check_thread(h, id)}

\* A record emitted by thread t of identifier id reaches every handler of the
\* root logger; ThreadLogHandler.emit appends it to the handler's deque.
Emit(t, id, rec, lvl) ==
    /\ \A h \in Takers(id, lvl) : EmitLockFree(h, t)
    /\ log' = [h \in Ids |-> IF h \in Takers(id, lvl)
                             THEN DequeAppend(log[h], rec) ELSE log[h]]
    /\ captured' = [h \in Ids |-> IF h \in Takers(id, lvl)
                                  THEN Append(captured[h], rec) ELSE captured[h]]

\* The next record of execution thread i that is of level INFO or more (a
\* record below it reaches no handler and leaves no trace).
Record(i) == [thread |-> i, n |-> emitted[i] + 1]

\* A log call made by execution thread i.
ThreadEmit(i, lvl) ==
    /\ Emit(InvThread(i), ident[i], Record(i), lvl)
    /\ emitted' = [emitted EXCEPT ![i] = IF lvl >= INFO THEN @ + 1 ELSE @]

\* ---------------------------------------------------------- Invocation.run
Alive(i) == tpc[i] \notin {"none", "unstarted", "dead"}

\* datetime.datetime.now()
Tick ==
    /\ now < budget.time
    /\ now' = now + 1
    /\ UNCHANGED <<invocations, invocations_lock, nobj, status, return_value,
                   request_time, start_time, end_time, input, action_ref, thing_ref, stopping, refs_alive,
                   log, status_lock, root_handlers, ident, tpc, outcome, emitted,
                   captured, cpc, ctx, returned, budget>>

\* What run() leaves alone in every step.
RunFrame ==
    UNCHANGED <<invocations, invocations_lock, nobj, request_time, input, action_ref, thing_ref, stopping,
                refs_alive, ident, now, cpc, ctx, returned, budget>>

\* with self._status_lock: the acquisition, by execution thread i.
RunAcquire(i, from, to) ==
    /\ tpc[i] = from
    /\ status_lock[i] = Free
    /\ status_lock' = [status_lock EXCEPT ![i] = InvThread(i)]
    /\ tpc' = [tpc EXCEPT ![i] = to]
    /\ UNCHANGED <<status, return_value, start_time, end_time, log, root_handlers,
                   outcome, emitted, captured>>
    /\ RunFrame

\* Lines 146-147: the handler is built and added to the root logger.
RunAddHandler(i) ==
    /\ tpc[i] = "run_addHandler"
    /\ root_handlers' = root_handlers \cup {i}
    /\ tpc' = [tpc EXCEPT ![i] = "run_resolve"]
    /\ UNCHANGED <<status, return_value, start_time, end_time, log, status_lock,
                   outcome, emitted, captured>>
    /\ RunFrame

\* Lines 149-153: the weak references are resolved and the input converted.
\* self.input.dict() raises AttributeError when the input is None, and the
\* assertions fail when a reference is dead: the exception leaves run() before
\* the try statement, so neither an except clause nor the finally clause runs.
RunResolve(i) ==
    /\ tpc[i] = "run_resolve"
    /\ IF input[i] = None \/ ~refs_alive[i]
       THEN /\ tpc' = [tpc EXCEPT ![i] = "dead"]
            /\ outcome' = [outcome EXCEPT ![i] = [NoOutcome EXCEPT !.kind = "crash"]]
       ELSE /\ tpc' = [tpc EXCEPT ![i] = "run_lock"]
            /\ UNCHANGED outcome
    /\ UNCHANGED <<status, return_value, start_time, end_time, log, status_lock,
                   root_handlers, emitted, captured>>
    /\ RunFrame

\* Line 155
RunLock(i) == RunAcquire(i, "run_lock", "run_setRunning")

\* (mutant) the lock is kept while the action runs.
RunSetRunning_hold(i) ==
    /\ tpc[i] = "run_setRunning"
    /\ status' = [status EXCEPT ![i] = "RUNNING"]
    /\ start_time' = [start_time EXCEPT ![i] = now]
    /\ tpc' = [tpc EXCEPT ![i] = "run_info"]
    /\ UNCHANGED <<return_value, end_time, log, root_handlers, outcome, emitted,
                   captured, status_lock>>
    /\ RunFrame

\* Lines 156-157, and the release of the lock.
RunSetRunning(i) ==
    /\ tpc[i] = "run_setRunning"
    /\ status' = [status EXCEPT ![i] = "RUNNING"]
    /\ start_time' = [start_time EXCEPT ![i] = now]
    /\ status_lock' = [status_lock EXCEPT ![i] = Free]
    /\ tpc' = [tpc EXCEPT ![i] = "run_info"]
    /\ UNCHANGED <<return_value, end_time, log, root_handlers, outcome, emitted,
                   captured>>
    /\ RunFrame

\* Line 161: logging.info
RunInfo(i) ==
    /\ tpc[i] = "run_info"
    /\ ThreadEmit(i, INFO)
    /\ tpc' = [tpc EXCEPT ![i] = "body"]
    /\ UNCHANGED <<status, return_value, start_time, end_time, status_lock,
                   root_handlers, outcome>>
    /\ RunFrame

\* Line 162, the bound action: it may log,
BodyLog(i) ==
    /\ tpc[i] = "body"
    /\ emitted[i] <= budget.emit
    /\ \E lvl \in Levels : ThreadEmit(i, lvl)
    /\ UNCHANGED <<status, return_value, start_time, end_time, status_lock,
                   root_handlers, outcome, tpc>>
    /\ RunFrame

\* return a value,
BodyReturn(i) ==
    /\ tpc[i] = "body"
    /\ "return" \in budget.kinds
    /\ \E v \in Values :
         outcome' = [outcome EXCEPT ![i] = [NoOutcome EXCEPT !.kind = "return", !.val = v]]
    /\ tpc' = [tpc EXCEPT ![i] = "ret_lock"]
    /\ UNCHANGED <<status, return_value, start_time, end_time, log, status_lock,
                   root_handlers, emitted, captured>>
    /\ RunFrame

\* raise SystemExit, having seen the stop flag set or not (sys.exit()); line
\* 168 logs it,
BodyExit(i) ==
    /\ tpc[i] = "body"
    /\ "SystemExit" \in budget.kinds
    /\ outcome' = [outcome EXCEPT ![i] = [NoOutcome EXCEPT !.kind = "SystemExit",
                                                            !.stop = stopping[i]]]
    /\ ThreadEmit(i, ERROR)
    /\ tpc' = [tpc EXCEPT ![i] = "exit_lock"]
    /\ UNCHANGED <<status, return_value, start_time, end_time, status_lock,
                   root_handlers>>
    /\ RunFrame

\* raise an Exception; line 172 logs the traceback,
BodyRaise(i) ==
    /\ tpc[i] = "body"
    /\ "Exception" \in budget.kinds
    /\ \E e \in Exceptions :
         outcome' = [outcome EXCEPT ![i] = [NoOutcome EXCEPT !.kind = "Exception", !.exc = e]]
    /\ ThreadEmit(i, ERROR)
    /\ tpc' = [tpc EXCEPT ![i] = "exc_lock"]
    /\ UNCHANGED <<status, return_value, start_time, end_time, status_lock,
                   root_handlers>>
    /\ RunFrame

\* or raise a BaseException that is neither (KeyboardInterrupt, GeneratorExit):
\* no except clause matches, and the finally clause runs.
BodyRaiseBase(i) ==
    /\ tpc[i] = "body"
    /\ "BaseException" \in budget.kinds
    /\ outcome' = [outcome EXCEPT ![i] = [NoOutcome EXCEPT !.kind = "BaseException"]]
    /\ tpc' = [tpc EXCEPT ![i] = "fin_lock"]
    /\ UNCHANGED <<status, return_value, start_time, end_time, log, status_lock,
                   root_handlers, emitted, captured>>
    /\ RunFrame

\* Line 164
RetLock(i) == RunAcquire(i, "ret_lock", "ret_set")

\* (mutant) the status is set and the return value is not stored.
RetSet_noOutput(i) ==
    /\ tpc[i] = "ret_set"
    /\ status' = [status EXCEPT ![i] = "COMPLETED"]
    /\ status_lock' = [status_lock EXCEPT ![i] = Free]
    /\ tpc' = [tpc EXCEPT ![i] = "fin_lock"]
    /\ UNCHANGED <<return_value, start_time, end_time, log, root_handlers, outcome,
                   emitted, captured>>
    /\ RunFrame

\* Lines 165-166, and the release of the lock.
RetSet(i) ==
    /\ tpc[i] = "ret_set"
    /\ return_value' = [return_value EXCEPT ![i] = outcome[i].val]
    /\ status' = [status EXCEPT ![i] = "COMPLETED"]
    /\ status_lock' = [status_lock EXCEPT ![i] = Free]
    /\ tpc' = [tpc EXCEPT ![i] = "fin_lock"]
    /\ UNCHANGED <<start_time, end_time, log, root_handlers, outcome, emitted,
                   captured>>
    /\ RunFrame

\* Line 169
ExitLock(i) == RunAcquire(i, "exit_lock", "exit_set")

\* (mutant) a cancelled invocation is given an output.
ExitSet_withOutput(i) ==
    /\ tpc[i] = "exit_set"
    /\ status' = [status EXCEPT ![i] = "CANCELLED"]
    /\ return_value' = [return_value EXCEPT ![i] = "SystemExit"]
    /\ status_lock' = [status_lock EXCEPT ![i] = Free]
    /\ tpc' = [tpc EXCEPT ![i] = "fin_lock"]
    /\ UNCHANGED <<start_time, end_time, log, root_handlers, outcome, emitted,
                   captured>>
    /\ RunFrame

\* (mutant) SystemExit is recorded as any other failure.
ExitSet_asError(i) ==
    /\ tpc[i] = "exit_set"
    /\ status' = [status EXCEPT ![i] = "ERROR"]
    /\ return_value' = [return_value EXCEPT ![i] = "SystemExit"]
    /\ status_lock' = [status_lock EXCEPT ![i] = Free]
    /\ tpc' = [tpc EXCEPT ![i] = "fin_lock"]
    /\ UNCHANGED <<start_time, end_time, log, root_handlers, outcome, emitted,
                   captured>>
    /\ RunFrame

\* Line 170, and the release of the lock.
ExitSet(i) ==
    /\ tpc[i] = "exit_set"
    /\ status' = [status EXCEPT ![i] = "CANCELLED"]
    /\ status_lock' = [status_lock EXCEPT ![i] = Free]
    /\ tpc' = [tpc EXCEPT ![i] = "fin_lock"]
    /\ UNCHANGED <<return_value, start_time, end_time, log, root_handlers, outcome,
                   emitted, captured>>
    /\ RunFrame

\* Line 173
ExcLock(i) == RunAcquire(i, "exc_lock", "exc_set")

\* (mutant) the output is the exception's first argument, not str(e).
ExcSet_arg(i) ==
    /\ tpc[i] = "exc_set"
    /\ status' = [status EXCEPT ![i] = "ERROR"]
    /\ return_value' = [return_value EXCEPT ![i] = outcome[i].exc.arg]
    /\ status_lock' = [status_lock EXCEPT ![i] = Free]
    /\ tpc' = [tpc EXCEPT ![i] = "fin_lock"]
    /\ UNCHANGED <<start_time, end_time, log, root_handlers, outcome, emitted,
                   captured>>
    /\ RunFrame

\* Lines 174-176, and the release of the lock; line 177 re-raises after the
\* finally clause.
ExcSet(i) ==
    /\ tpc[i] = "exc_set"
    /\ status' = [status EXCEPT ![i] = "ERROR"]
    /\ return_value' = [return_value EXCEPT ![i] = Str(outcome[i].exc)]
    /\ status_lock' = [status_lock EXCEPT ![i] = Free]
    /\ tpc' = [tpc EXCEPT ![i] = "fin_lock"]
    /\ UNCHANGED <<start_time, end_time, log, root_handlers, outcome, emitted,
                   captured>>
    /\ RunFrame

\* Line 179
FinLock(i) == RunAcquire(i, "fin_lock", "fin_set")

\* (mutant) the end time is the time of the request, not that of the end.
FinSet_staleTime(i) ==
    /\ tpc[i] = "fin_set"
    /\ end_time' = [end_time EXCEPT ![i] = request_time[i]]
    /\ status_lock' = [status_lock EXCEPT ![i] = Free]
    /\ tpc' = [tpc EXCEPT ![i] = "fin_remove"]
    /\ UNCHANGED <<status, return_value, start_time, log, root_handlers, outcome,
                   emitted, captured>>
    /\ RunFrame

\* (mutant) the finally clause marks the invocation completed.
FinSet_completes(i) ==
    /\ tpc[i] = "fin_set"
    /\ end_time' = [end_time EXCEPT ![i] = now]
    /\ status' = [status EXCEPT ![i] = "COMPLETED"]
    /\ status_lock' = [status_lock EXCEPT ![i] = Free]
    /\ tpc' = [tpc EXCEPT ![i] = "fin_remove"]
    /\ UNCHANGED <<return_value, start_time, log, root_handlers, outcome,
                   emitted, captured>>
    /\ RunFrame

\* Line 180, and the release of the lock.
FinSet(i) ==
    /\ tpc[i] = "fin_set"
    /\ end_time' = [end_time EXCEPT ![i] = now]
    /\ status_lock' = [status_lock EXCEPT ![i] = Free]
    /\ tpc' = [tpc EXCEPT ![i] = "fin_remove"]
    /\ UNCHANGED <<status, return_value, start_time, log, root_handlers, outcome,
                   emitted, captured>>
    /\ RunFrame

\* Line 181: the handler is removed; run() ends (line 177 re-raising the
\* exception into the thread's excepthook), and the thread exits.
FinRemove(i) ==
    /\ tpc[i] = "fin_remove"
    /\ root_handlers' = root_handlers \ {i}
    /\ tpc' = [tpc EXCEPT ![i] = "dead"]
    /\ UNCHANGED <<status, return_value, start_time, end_time, log, status_lock,
                   outcome, emitted, captured>>
    /\ RunFrame

Run(i) ==
    \/ RunAddHandler(i) \/ RunResolve(i) \/ RunLock(i) \/ RunSetRunning(i)
    \/ RunInfo(i) \/ BodyLog(i) \/ BodyReturn(i) \/ BodyExit(i) \/ BodyRaise(i)
    \/ BodyRaiseBase(i) \/ RetLock(i) \/ RetSet(i) \/ ExitLock(i) \/ ExitSet(i)
    \/ ExcLock(i) \/ ExcSet(i) \/ FinLock(i) \/ FinSet(i) \/ FinRemove(i)

\* ------------------------------------------------------------ ActionManager
\* What a client's step leaves alone unless it says otherwise.
ClientFrame ==
    UNCHANGED <<return_value, start_time, end_time, refs_alive, log, root_handlers,
                outcome, emitted, captured, now, budget>>

\* (mutant) a new key goes first.
DictSet_first(d, k) ==
    IF \E n \in 1..Len(d) : d[n] = k THEN d ELSE <<k>> \o d

\* (mutant) the registry is replaced by one holding the new invocation alone.
DictSet_replace(d, k) == <<k>>

\* self._invocations[invocation.id] = invocation: a new key goes last, a key
\* already there keeps its place.
DictSet(d, k) ==
    IF \E n \in 1..Len(d) : d[n] = k THEN d ELSE Append(d, k)

\* id in self._invocations
Registered(k) == \E n \in 1..Len(invocations) : invocations[n] = k

\* The action and the thing invoke_action may be called with for its n-th
\* invocation (the first one's are "move" and "stageA": only the equality of
\* two actions, or of two things, is ever read).
Callable(n) ==
    IF n = 1 THEN {<<"move", "stageA">>}
    ELSE IF budget.list THEN Actions \X Things
    ELSE {<<"move", "stageB">>}

\* Line 251: Invocation(action, thing, input); the id is a fresh uuid4.
InvokeConstruct(c) ==
    /\ cpc[c] = "idle"
    /\ nobj < budget.inv
    /\ \E inp \in (IF budget.list THEN {None} ELSE Inputs) :
         input' = [input EXCEPT ![nobj + 1] = inp]
    /\ \E at \in Callable(nobj + 1) :
         /\ action_ref' = [action_ref EXCEPT ![nobj + 1] = at[1]]
         /\ thing_ref' = [thing_ref EXCEPT ![nobj + 1] = at[2]]
    /\ nobj' = nobj + 1
    /\ status' = [status EXCEPT ![nobj + 1] = "PENDING"]
    /\ request_time' = [request_time EXCEPT ![nobj + 1] = now]
    /\ tpc' = [tpc EXCEPT ![nobj + 1] = "unstarted"]
    /\ ctx' = [ctx EXCEPT ![c] = [IdleCtx EXCEPT !.op = "invoke", !.target = nobj + 1]]
    /\ cpc' = [cpc EXCEPT ![c] = "append_lock"]
    /\ UNCHANGED <<invocations, invocations_lock, stopping, status_lock, ident, returned>>
    /\ ClientFrame

\* Line 246: with self._invocations_lock, in append_invocation.
AppendAcquire(c) ==
    /\ cpc[c] = "append_lock"
    /\ invocations_lock = Free
    /\ invocations_lock' = ClientThread(c)
    /\ cpc' = [cpc EXCEPT ![c] = "append_insert"]
    /\ UNCHANGED <<invocations, nobj, status, request_time, input, action_ref, thing_ref, stopping,
                   status_lock, ident, tpc, ctx, returned>>
    /\ ClientFrame

\* Line 247, and the release of the lock.
AppendInsert(c) ==
    /\ cpc[c] = "append_insert"
    /\ invocations' = DictSet(invocations, ctx[c].target)
    /\ invocations_lock' = Free
    /\ cpc' = [cpc EXCEPT ![c] = "invoke_start"]
    /\ UNCHANGED <<nobj, status, request_time, input, action_ref, thing_ref, stopping, status_lock, ident,
                   tpc, ctx, returned>>
    /\ ClientFrame

\* The identifiers a new thread may get: that of a thread that has exited, or
\* one never given yet (the least of them: only their equality is ever read).
FreeIdents ==
    LET live == {ident[j] : j \in {k \in Ids : Alive(k)}}
        used == {ident[j] : j \in {k \in Ids : ident[k] # NoIdent}}
        fresh == Idents \ used
    IN  (used \ live) \cup {id \in fresh : \A o \in fresh : id <= o}

\* (mutant) a thread that has ended may be started again.
Startable_ended(i) == tpc[i] \in {"unstarted", "dead"}

\* Thread.start() of the Invocation (a Thread, line 45): it starts a thread
\* that was never started, and raises RuntimeError otherwise.
Startable(i) == tpc[i] = "unstarted"

\* Line 253: thread.start(). The new thread's identifier is one no live thread
\* has. When a holder of the handle has started the thread already, start()
\* raises RuntimeError, and so does invoke_action.
InvokeStart(c) ==
    /\ cpc[c] = "invoke_start"
    /\ IF Startable(ctx[c].target)
       THEN /\ \E id \in FreeIdents : ident' = [ident EXCEPT ![ctx[c].target] = id]
            /\ tpc' = [tpc EXCEPT ![ctx[c].target] = "run_addHandler"]
            /\ cpc' = [cpc EXCEPT ![c] = "invoke_return"]
            /\ UNCHANGED ctx
       ELSE /\ ctx' = [ctx EXCEPT ![c] = Returned("RuntimeError")]
            /\ cpc' = [cpc EXCEPT ![c] = "idle"]
            /\ UNCHANGED <<ident, tpc>>
    /\ UNCHANGED <<invocations, invocations_lock, nobj, status, request_time, input, action_ref, thing_ref,
                   stopping, status_lock, returned>>
    /\ ClientFrame

\* (mutant) the thread is joined before the handle is returned.
InvokeReturn_join(c) ==
    /\ cpc[c] = "invoke_return"
    /\ tpc[ctx[c].target] = "dead"
    /\ returned' = returned \cup {ctx[c].target}
    /\ ctx' = [ctx EXCEPT ![c] = Returned("handle")]
    /\ cpc' = [cpc EXCEPT ![c] = "idle"]
    /\ UNCHANGED <<invocations, invocations_lock, nobj, status, request_time, input, action_ref, thing_ref,
                   stopping, status_lock, ident, tpc>>
    /\ ClientFrame

\* Line 254: return thread.
InvokeReturn(c) ==
    /\ cpc[c] = "invoke_return"
    /\ returned' = returned \cup {ctx[c].target}
    /\ ctx' = [ctx EXCEPT ![c] = Returned("handle")]
    /\ cpc' = [cpc EXCEPT ![c] = "idle"]
    /\ UNCHANGED <<invocations, invocations_lock, nobj, status, request_time, input, action_ref, thing_ref,
                   stopping, status_lock, ident, tpc>>
    /\ ClientFrame

\* What a query leaves alone in every step.
QueryFrame ==
    /\ UNCHANGED <<invocations, nobj, status, request_time, input, action_ref, thing_ref, stopping, ident,
                   tpc, returned>>
    /\ ClientFrame

\* GET /action_invocations/{id}: action_invocation is called with an id, one
\* of an invocation or one that belongs to none (0).
GetCall(c) ==
    /\ cpc[c] = "idle"
    /\ budget.poll
    /\ \E id \in {0} \cup Ids :
         ctx' = [ctx EXCEPT ![c] = [IdleCtx EXCEPT !.op = "get", !.target = id]]
    /\ cpc' = [cpc EXCEPT ![c] = "get_lock"]
    /\ UNCHANGED <<invocations_lock, status_lock>>
    /\ QueryFrame

\* Line 281: with self._invocations_lock.
GetAcquire(c) ==
    /\ cpc[c] = "get_lock"
    /\ invocations_lock = Free
    /\ invocations_lock' = ClientThread(c)
    /\ cpc' = [cpc EXCEPT ![c] = "get_lookup"]
    /\ UNCHANGED <<status_lock, ctx>>
    /\ QueryFrame

\* (mutant) the lock is not released when the lookup fails.
GetNotFound_keepLock(c) ==
    /\ cpc[c] = "get_lookup"
    /\ ~Registered(ctx[c].target)
    /\ ctx' = [ctx EXCEPT ![c] = Returned("404")]
    /\ cpc' = [cpc EXCEPT ![c] = "idle"]
    /\ UNCHANGED <<invocations_lock, status_lock>>
    /\ QueryFrame

\* Lines 282-287: self._invocations[id] raises KeyError; leaving the with
\* block releases the lock, and the handler answers 404.
GetNotFound(c) ==
    /\ cpc[c] = "get_lookup"
    /\ ~Registered(ctx[c].target)
    /\ invocations_lock' = Free
    /\ ctx' = [ctx EXCEPT ![c] = Returned("404")]
    /\ cpc' = [cpc EXCEPT ![c] = "idle"]
    /\ UNCHANGED status_lock
    /\ QueryFrame

\* Line 282: the invocation is found and response() is called on it, inside
\* the with block.
GetFound(c) ==
    /\ cpc[c] = "get_lookup"
    /\ Registered(ctx[c].target)
    /\ cpc' = [cpc EXCEPT ![c] = "resp_status_lock"]
    /\ UNCHANGED <<invocations_lock, status_lock, ctx>>
    /\ QueryFrame

\* The registry lock once response() has ended, normally or not: get-by-id
\* leaves its with block; list_invocations holds no lock.
AfterResponse(c) ==
    IF ctx[c].op = "get" THEN Free ELSE invocations_lock

\* Line 132, self.status: line 115, with self._status_lock.
RespStatusAcquire(c) ==
    /\ cpc[c] = "resp_status_lock"
    /\ status_lock[ctx[c].target] = Free
    /\ status_lock' = [status_lock EXCEPT ![ctx[c].target] = ClientThread(c)]
    /\ cpc' = [cpc EXCEPT ![c] = "resp_status"]
    /\ UNCHANGED <<invocations_lock, ctx>>
    /\ QueryFrame

\* Line 116, and the release of the lock.
RespStatus(c) ==
    /\ cpc[c] = "resp_status"
    /\ ctx' = [ctx EXCEPT ![c].view = [NoView EXCEPT !.status = status[ctx[c].target],
                                                     !.id = ctx[c].target]]
    /\ status_lock' = [status_lock EXCEPT ![ctx[c].target] = Free]
    /\ cpc' = [cpc EXCEPT ![c] = "resp_refs"]
    /\ UNCHANGED invocations_lock
    /\ QueryFrame

\* Line 134: self.thing.path + self.action.name raises AttributeError when a
\* reference is dead; the exception ends response() and its caller.
RespRefsDead(c) ==
    /\ cpc[c] = "resp_refs"
    /\ ~refs_alive[ctx[c].target]
    /\ invocations_lock' = AfterResponse(c)
    /\ ctx' = [ctx EXCEPT ![c] = Returned("AttributeError")]
    /\ cpc' = [cpc EXCEPT ![c] = "idle"]
    /\ UNCHANGED status_lock
    /\ QueryFrame

\* Lines 134-136: the display name, and self._start_time read without the lock.
RespStart(c) ==
    /\ cpc[c] = "resp_refs"
    /\ refs_alive[ctx[c].target]
    /\ ctx' = [ctx EXCEPT ![c].view.timeStarted = start_time[ctx[c].target]]
    /\ cpc' = [cpc EXCEPT ![c] = "resp_end"]
    /\ UNCHANGED <<invocations_lock, status_lock>>
    /\ QueryFrame

\* Line 137: self._end_time read without the lock.
RespEnd(c) ==
    /\ cpc[c] = "resp_end"
    /\ ctx' = [ctx EXCEPT ![c].view.timeCompleted = end_time[ctx[c].target]]
    /\ cpc' = [cpc EXCEPT ![c] = "resp_output_lock"]
    /\ UNCHANGED <<invocations_lock, status_lock>>
    /\ QueryFrame

\* Line 140, self.output: line 91, with self._status_lock.
RespOutputAcquire(c) ==
    /\ cpc[c] = "resp_output_lock"
    /\ status_lock[ctx[c].target] = Free
    /\ status_lock' = [status_lock EXCEPT ![ctx[c].target] = ClientThread(c)]
    /\ cpc' = [cpc EXCEPT ![c] = "resp_output"]
    /\ UNCHANGED <<invocations_lock, ctx>>
    /\ QueryFrame

\* Lines 131-141: the InvocationModel response() returns to client c, whose
\* last field, the output, is read at line 92.
ResponseModel(c) == [ctx[c].view EXCEPT !.output = return_value[ctx[c].target]]

\* Line 92 and the release of the lock; the InvocationModel is built and
\* response() returns: to action_invocation, which leaves its with block and
\* returns the view, or to the comprehension of list_invocations.
RespOutput(c) ==
    /\ cpc[c] = "resp_output"
    /\ status_lock' = [status_lock EXCEPT ![ctx[c].target] = Free]
    /\ invocations_lock' = AfterResponse(c)
    /\ LET v == ResponseModel(c)
       IN  IF ctx[c].op = "get"
           THEN /\ ctx' = [ctx EXCEPT ![c] = Returned("ok")]
                /\ cpc' = [cpc EXCEPT ![c] = "idle"]
           ELSE /\ ctx' = [ctx EXCEPT ![c].view = NoView,
                                      ![c].views = Append(@, v.id),
                                      ![c].todo = Tail(@)]
                /\ cpc' = [cpc EXCEPT ![c] = "list_next"]
    /\ QueryFrame

\* Lines 118-124: the action and thing properties resolve the weak references.
action(i) == IF refs_alive[i] THEN action_ref[i] ELSE None
thing(i) == IF refs_alive[i] THEN thing_ref[i] ELSE None

\* The values of as_responses: list_all_invocations (line 273) passes True and
\* no filter; a call with a filter is one for the handles.
AsResponses ==
    IF budget.action = None /\ budget.thing = None THEN BOOLEAN ELSE {FALSE}

\* list_invocations(action=budget.action, thing=budget.thing,
\* as_responses=...). An object a caller passes as a filter is alive.
ListCall(c) ==
    /\ cpc[c] = "idle"
    /\ budget.poll \/ budget.list
    /\ \A i \in 1..nobj :
         (action_ref[i] = budget.action \/ thing_ref[i] = budget.thing) => refs_alive[i]
    /\ \E r \in AsResponses :
         ctx' = [ctx EXCEPT ![c] = [IdleCtx EXCEPT !.op = "list", !.as_responses = r,
                                                   !.listed = ctx[c].listed]]
    /\ cpc' = [cpc EXCEPT ![c] = "list_lock"]
    /\ UNCHANGED <<invocations_lock, status_lock>>
    /\ QueryFrame

\* Line 242: with self._invocations_lock, in the invocations property.
ListAcquire(c) ==
    /\ cpc[c] = "list_lock"
    /\ invocations_lock = Free
    /\ invocations_lock' = ClientThread(c)
    /\ cpc' = [cpc EXCEPT ![c] = "list_copy"]
    /\ UNCHANGED <<status_lock, ctx>>
    /\ QueryFrame

\* Line 243: list(self._invocations.values()), and the release of the lock.
ListCopy(c) ==
    /\ cpc[c] = "list_copy"
    /\ ctx' = [ctx EXCEPT ![c].todo = invocations]
    /\ invocations_lock' = Free
    /\ cpc' = [cpc EXCEPT ![c] = "list_next"]
    /\ UNCHANGED status_lock
    /\ QueryFrame

\* Lines 265-266: the conditions of the comprehension, for invocation i.
Selected(i) ==
    /\ budget.thing = None \/ thing(i) = budget.thing
    /\ budget.action = None \/ action(i) = budget.action

\* What a list call leaves behind once it has returned.
Listed(c) ==
    IF budget.list THEN [made |-> TRUE, ids |-> ctx[c].views] ELSE NoList

\* Lines 262-267: the comprehension takes the next invocation of the copy and
\* skips it when a filter rejects it; else it takes the handle itself, or its
\* response(); at the end of the copy it returns.
ListNext(c) ==
    /\ cpc[c] = "list_next"
    /\ IF ctx[c].todo = <<>>
       THEN /\ ctx' = [ctx EXCEPT ![c] = [Returned("ok") EXCEPT !.listed = Listed(c)]]
            /\ cpc' = [cpc EXCEPT ![c] = "idle"]
       ELSE IF ~Selected(Head(ctx[c].todo))
       THEN /\ ctx' = [ctx EXCEPT ![c].todo = Tail(@)]
            /\ UNCHANGED cpc
       ELSE IF ctx[c].as_responses
       THEN /\ ctx' = [ctx EXCEPT ![c].target = Head(ctx[c].todo)]
            /\ cpc' = [cpc EXCEPT ![c] = "resp_status_lock"]
       ELSE /\ ctx' = [ctx EXCEPT ![c].views = Append(@, Head(ctx[c].todo)),
                                  ![c].todo = Tail(@)]
            /\ UNCHANGED cpc
    /\ UNCHANGED <<invocations_lock, status_lock>>
    /\ QueryFrame

\* The invocations a client may hold a handle of.
Handles == returned \cup {k \in Ids : Registered(k)}

\* A client reads the status, output or log property of a handle.
PropCall(c) ==
    /\ cpc[c] = "idle"
    /\ budget.poll
    /\ \E i \in Handles, what \in {"status", "output", "log"} :
         ctx' = [ctx EXCEPT ![c] = [IdleCtx EXCEPT !.op = what, !.target = i]]
    /\ cpc' = [cpc EXCEPT ![c] = "prop_lock"]
    /\ UNCHANGED <<invocations_lock, status_lock>>
    /\ QueryFrame

\* Lines 91, 97, 115: with self._status_lock.
PropAcquire(c) ==
    /\ cpc[c] = "prop_lock"
    /\ status_lock[ctx[c].target] = Free
    /\ status_lock' = [status_lock EXCEPT ![ctx[c].target] = ClientThread(c)]
    /\ cpc' = [cpc EXCEPT ![c] = "prop_read"]
    /\ UNCHANGED <<invocations_lock, ctx>>
    /\ QueryFrame

\* Lines 92, 98, 116, and the release of the lock.
PropRead(c) ==
    /\ cpc[c] = "prop_read"
    /\ ctx' = [ctx EXCEPT ![c] = Returned("ok")]
    /\ status_lock' = [status_lock EXCEPT ![ctx[c].target] = Free]
    /\ cpc' = [cpc EXCEPT ![c] = "idle"]
    /\ UNCHANGED invocations_lock
    /\ QueryFrame

\* invocation.start(), called by a holder of the handle.
StartCall(c) ==
    /\ cpc[c] = "idle"
    /\ budget.start
    /\ \E i \in Handles :
         IF Startable(i)
         THEN /\ \E id \in FreeIdents : ident' = [ident EXCEPT ![i] = id]
              /\ tpc' = [tpc EXCEPT ![i] = "run_addHandler"]
              /\ ctx' = [ctx EXCEPT ![c] = Returned("started")]
         ELSE /\ ctx' = [ctx EXCEPT ![c] = Returned("RuntimeError")]
              /\ UNCHANGED <<ident, tpc>>
    /\ UNCHANGED <<invocations, invocations_lock, nobj, status, request_time, input, action_ref, thing_ref,
                   stopping, status_lock, cpc, returned>>
    /\ ClientFrame

\* invocation.stopping.set(): a stop is requested.
RequestStop(c) ==
    /\ cpc[c] = "idle"
    /\ ~budget.list
    /\ \E i \in Handles : stopping' = [stopping EXCEPT ![i] = TRUE]
    /\ UNCHANGED <<invocations, invocations_lock, nobj, status, request_time, input, action_ref, thing_ref,
                   status_lock, ident, tpc, cpc, ctx, returned>>
    /\ ClientFrame

\* A client thread logs: the record reaches every handler of the root logger.
ClientLog(c) ==
    /\ budget.poll
    /\ \E lvl \in Levels :
         Emit(ClientThread(c), ClientIdent(c), [thread |-> -c, n |-> 0], lvl)
    /\ UNCHANGED <<invocations, invocations_lock, nobj, status, return_value,
                   request_time, start_time, end_time, input, action_ref, thing_ref, stopping, refs_alive,
                   status_lock, root_handlers, ident, tpc, outcome, emitted, now,
                   cpc, ctx, returned, budget>>

\* The caller of invoke_action lets go of the action and its owner: nothing
\* else holds them once no frame of invoke_action or run() does.
DropRefs(i) ==
    /\ budget.drop
    /\ i \in returned
    /\ refs_alive[i]
    /\ tpc[i] \in {"run_addHandler", "run_resolve", "dead"}
    /\ refs_alive' = [refs_alive EXCEPT ![i] = FALSE]
    /\ UNCHANGED <<invocations, invocations_lock, nobj, status, return_value,
                   request_time, start_time, end_time, input, action_ref, thing_ref, stopping, log,
                   status_lock, root_handlers, ident, tpc, outcome, emitted,
                   captured, now, cpc, ctx, returned, budget>>

Dispatch(c) ==
    \/ InvokeConstruct(c) \/ AppendAcquire(c) \/ AppendInsert(c) \/ InvokeStart(c)
    \/ InvokeReturn(c) \/ RequestStop(c) \/ StartCall(c)

Poll(c) ==
    \/ GetCall(c) \/ GetAcquire(c) \/ GetNotFound(c)
    \/ GetFound(c) \/ RespStatusAcquire(c) \/ RespStatus(c) \/ RespRefsDead(c)
    \/ RespStart(c) \/ RespEnd(c) \/ RespOutputAcquire(c) \/ RespOutput(c)
    \/ ListCall(c) \/ ListAcquire(c) \/ ListCopy(c) \/ ListNext(c) \/ PropCall(c)
    \/ PropAcquire(c) \/ PropRead(c) \/ ClientLog(c)

Next ==
    \/ \E i \in Ids : Run(i) \/ DropRefs(i)
    \/ \E c \in Dispatchers : (c = 1 \/ budget.list \/ budget.start) /\ Dispatch(c)
    \/ \E c \in Pollers : Poll(c)
    \/ Tick

Spec == Init /\ [][Next]_vars

\* ================================================================== claims
Terminal == {"COMPLETED", "CANCELLED", "ERROR"}
SeqRange(q) == {q[n] : n \in 1..Len(q)}
IsPrefix(a, b) == Len(a) <= Len(b) /\ \A n \in 1..Len(a) : a[n] = b[n]
LastN(q, n) == IF Len(q) <= n THEN q ELSE SubSeq(q, Len(q) - n + 1, Len(q))

StatusEdges ==
    {<<"none", "PENDING">>, <<"PENDING", "RUNNING">>, <<"RUNNING", "COMPLETED">>,
     <<"RUNNING", "CANCELLED">>, <<"RUNNING", "ERROR">>}
StatusRank(st) ==
    IF st \in Terminal THEN 3 ELSE IF st = "RUNNING" THEN 2
    ELSE IF st = "PENDING" THEN 1 ELSE 0

\* C1: the status of an invocation only ever moves along PENDING -> RUNNING
\* and RUNNING -> COMPLETED | CANCELLED | ERROR (no other edge, no regress, a
\* terminal status is final), and a status a poller has read is never ahead of
\* the invocation's status, nor a different terminal status.
C1_StatusSequence ==
    /\ [][\A i \in Ids : status'[i] # status[i]
                         => <<status[i], status'[i]>> \in StatusEdges]_vars
    /\ [](\A c \in Pollers :
            ctx[c].view.status # "none"
            => /\ StatusRank(ctx[c].view.status) <= StatusRank(status[ctx[c].view.id])
               /\ ctx[c].view.status \in Terminal
                  => ctx[c].view.status = status[ctx[c].view.id])

\* C1 witness: a poller that read RUNNING is still building its view when the
\* invocation has reached a terminal status.
C1_Witness ==
    \E c \in Pollers :
        /\ ctx[c].view.status = "RUNNING"
        /\ status[ctx[c].view.id] \in Terminal

\* C2: an invocation that invoke_action has returned, or whose thread has been
\* started, is in the registry; the registry only grows at its end; a
\* get-by-id of a returned id finds it, and the copy list_invocations takes
\* holds every returned id.
C2_ReturnedStaysRegistered ==
    /\ [](\A i \in Ids :
            (i \in returned \/ tpc[i] \notin {"none", "unstarted"}) => Registered(i))
    /\ [][/\ IsPrefix(invocations, invocations')
          /\ \A c \in Pollers :
               /\ (cpc[c] = "get_lookup" /\ cpc'[c] # "get_lookup"
                   /\ ctx[c].target \in returned)
                  => cpc'[c] = "resp_status_lock"
               /\ (cpc[c] = "list_copy" /\ cpc'[c] = "list_next")
                  => returned \subseteq SeqRange(ctx'[c].todo)]_vars

\* C2 witness: with two invocations registered, a get-by-id has found a
\* returned invocation whose thread has ended.
C2_Witness ==
    \E c \in Pollers :
        /\ cpc[c] = "resp_status_lock"
        /\ ctx[c].op = "get"
        /\ ctx[c].target \in returned
        /\ tpc[ctx[c].target] = "dead"
        /\ Len(invocations) = 2

\* C3: a get-by-id of an id that is no invocation's id ends with 404, the
\* registry lock released, and the registry and every invocation's state
\* (fields, flag, log, lock, thread) as they were.
C3_UnknownIdNotFound ==
    [][\A c \in Pollers :
         (cpc[c] = "get_lookup" /\ cpc'[c] # "get_lookup"
          /\ ctx[c].target \notin 1..nobj)
         => /\ ctx'[c].result = "404"
            /\ cpc'[c] = "idle"
            /\ invocations_lock' = Free
            /\ UNCHANGED <<invocations, nobj, status, return_value, request_time,
                           start_time, end_time, input, action_ref, thing_ref, stopping, refs_alive, log,
                           status_lock, root_handlers, ident, tpc, returned>>]_vars

\* C3 witness: a lookup has ended with 404 while the registry holds an
\* invocation.
C3_Witness ==
    \E c \in Pollers : ctx[c].result = "404" /\ Len(invocations) > 0

\* C4: when the action has returned v, the status is RUNNING until it is
\* COMPLETED, it is COMPLETED only with output v, the thread ends with status
\* COMPLETED and completedAt set, and a view whose status was read as
\* COMPLETED is returned with output v.
C4_ReturnCompletes ==
    \A i \in Ids :
        outcome[i].kind = "return"
        => /\ status[i] \in {"RUNNING", "COMPLETED"}
           /\ status[i] = "COMPLETED" => return_value[i] = outcome[i].val
           /\ tpc[i] = "dead" => status[i] = "COMPLETED" /\ end_time[i] # NoTime
           /\ \A c \in Pollers :
                (cpc[c] = "resp_output" /\ ctx[c].target = i
                 /\ ctx[c].view.status = "COMPLETED")
                => ResponseModel(c).output = outcome[i].val

\* C4 witness: a view with status COMPLETED is about to be returned for an
\* invocation whose action returned "v".
C4_Witness ==
    \E c \in Pollers :
        /\ cpc[c] = "resp_output"
        /\ ctx[c].view.status = "COMPLETED"
        /\ outcome[ctx[c].target].kind = "return"
        /\ outcome[ctx[c].target].val = "v"
        /\ tpc[ctx[c].target] = "dead"

\* C5: when the action has raised an Exception e, the status is RUNNING until
\* it is ERROR, it is ERROR only with output str(e), the thread ends (the
\* exception re-raised) with status ERROR, completedAt set and not earlier
\* than startedAt, and a view whose status was read as ERROR is returned with
\* output str(e).
C5_ExceptionIsError ==
    \A i \in Ids :
        outcome[i].kind = "Exception"
        => /\ status[i] \in {"RUNNING", "ERROR"}
           /\ status[i] = "ERROR" => return_value[i] = Str(outcome[i].exc)
           /\ tpc[i] = "dead"
              => /\ status[i] = "ERROR"
                 /\ start_time[i] # NoTime
                 /\ end_time[i] # NoTime
                 /\ end_time[i] >= start_time[i]
           /\ \A c \in Pollers :
                (cpc[c] = "resp_output" /\ ctx[c].target = i
                 /\ ctx[c].view.status = "ERROR")
                => ResponseModel(c).output = Str(outcome[i].exc)

\* C5 witness: the thread of an invocation whose action raised KeyError("k")
\* has ended, the clock having advanced between its start and its end.
C5_Witness ==
    \E i \in Ids :
        /\ outcome[i].kind = "Exception"
        /\ outcome[i].exc.cls = "KeyError"
        /\ tpc[i] = "dead"
        /\ end_time[i] > start_time[i]

\* C6: when the action body has seen the stop flag set and left with
\* SystemExit, the output is never set, the status is RUNNING until it is
\* CANCELLED, and the thread ends with status CANCELLED and completedAt set.
C6_StopIsCancelled ==
    \A i \in Ids :
        (outcome[i].kind = "SystemExit" /\ outcome[i].stop)
        => /\ status[i] \in {"RUNNING", "CANCELLED"}
           /\ return_value[i] = None
           /\ tpc[i] = "dead" => status[i] = "CANCELLED" /\ end_time[i] # NoTime

\* C6 witness: the thread of such an invocation has ended.
C6_Witness ==
    \E i \in Ids :
        /\ outcome[i].kind = "SystemExit"
        /\ outcome[i].stop
        /\ stopping[i]
        /\ tpc[i] = "dead"

\* C7: every record in an invocation's log was emitted by that invocation's
\* own execution thread.
C7_LogIsolation ==
    \A i \in Ids : \A k \in 1..Len(log[i]) : log[i][k].thread = i

C9_InvokeDoesNotWait ==
    \A c \in Dispatchers :
        /\ cpc[c] = "invoke_start" => ENABLED InvokeStart(c)
        /\ cpc[c] = "invoke_return" => ENABLED InvokeReturn(c)

\* C9 witness: invoke_action is about to return the handle of an invocation
\* whose action body is executing, and another it returned is still PENDING.
C9_Witness ==
    \E c \in Dispatchers :
        /\ cpc[c] = "invoke_return"
        /\ tpc[ctx[c].target] = "body"
        /\ status[ctx[c].target] = "RUNNING"
        /\ \E j \in returned : status[j] = "PENDING"

\* The threads, and the lock each is waiting for (its holder; Free when the
\* thread is not at an acquisition or the lock is free).
Threads == {InvThread(i) : i \in Ids} \cup {ClientThread(c) : c \in Clients}
WaitsFor(t) ==
    IF t[1] = "inv"
    THEN IF tpc[t[2]] \in {"run_lock", "ret_lock", "exit_lock", "exc_lock", "fin_lock"}
         THEN status_lock[t[2]] ELSE Free
    ELSE IF cpc[t[2]] \in {"append_lock", "get_lock", "list_lock"}
         THEN invocations_lock
         ELSE IF cpc[t[2]] \in {"resp_status_lock", "resp_output_lock", "prop_lock"}
              THEN status_lock[ctx[t[2]].target] ELSE Free
\* A thread that is inside a critical section and whose next step waits for
\* nothing.
InSection(t) ==
    /\ WaitsFor(t) = Free
    /\ IF t[1] = "inv"
       THEN tpc[t[2]] \in {"run_setRunning", "ret_set", "exit_set", "exc_set", "fin_set"}
       ELSE cpc[t[2]] # "idle"

\* C10: an execution thread holds no registry lock, and holds its
\* invocation's lock only in the short sections of run() that write the
\* fields, never while the bound action executes; and a thread that waits for
\* a lock waits for a thread inside a critical section that waits for
\* nothing, or for one that itself waits for such a thread: no reader waits
\* for an action body, and no cycle of waiting threads exists.
C10_NoReaderWaitsForBody ==
    /\ \A i \in Ids :
         /\ invocations_lock # InvThread(i)
         /\ \A j \in Ids :
              status_lock[j] = InvThread(i)
              => j = i /\ tpc[i] \in {"run_setRunning", "ret_set", "exit_set",
                                      "exc_set", "fin_set"}
    /\ \A t \in Threads :
         WaitsFor(t) # Free
         => \/ InSection(WaitsFor(t))
            \/ WaitsFor(WaitsFor(t)) # Free /\ InSection(WaitsFor(WaitsFor(t)))

\* C10 witness: while an action body is executing, a get-by-id holds the
\* registry lock and the invocation's lock and is about to return its view;
\* the dispatcher waits for the registry lock.
C10_Witness ==
    \E d \in Dispatchers, c \in Pollers :
        /\ cpc[d] = "append_lock"
        /\ invocations_lock = ClientThread(c)
        /\ cpc[c] = "resp_output"
        /\ tpc[ctx[c].target] = "body"

\* The fields of invocation i a view shows, and the values they have had so
\* far: those of construction, those written at lines 156-157, those written
\* with the terminal status, and the present ones.
Fields(st, ts, tc, out) ==
    [status |-> st, timeStarted |-> ts, timeCompleted |-> tc, output |-> out]
FieldsNow(i) == Fields(status[i], start_time[i], end_time[i], return_value[i])
FieldsSoFar(i) ==
    {Fields("PENDING", NoTime, NoTime, None), FieldsNow(i)}
    \cup (IF status[i] # "PENDING"
          THEN {Fields("RUNNING", start_time[i], NoTime, None)} ELSE {})
    \cup (IF status[i] \in Terminal
          THEN {Fields(status[i], start_time[i], NoTime, return_value[i])} ELSE {})

\* C11: setting the stop flag changes the flag alone, a flag that is set stays
\* set, and an invocation ends COMPLETED when its action returned and ERROR
\* when it raised an Exception, whatever the flag; it is CANCELLED only when
\* the action body saw the flag set and left.
C11_StopIsAdvisory ==
    /\ [][\A i \in Ids :
            /\ stopping[i] => stopping'[i]
            /\ stopping'[i] # stopping[i]
               => UNCHANGED <<invocations, invocations_lock, nobj, status,
                              return_value, request_time, start_time, end_time,
                              input, action_ref, thing_ref, refs_alive, log, status_lock, root_handlers,
                              ident, tpc, outcome, emitted, captured, cpc, returned>>]_vars
    /\ [](\A i \in Ids :
            /\ (tpc[i] = "dead" /\ outcome[i].kind = "return") => status[i] = "COMPLETED"
            /\ (tpc[i] = "dead" /\ outcome[i].kind = "Exception") => status[i] = "ERROR"
            /\ status[i] = "CANCELLED"
               => outcome[i].kind = "SystemExit" /\ outcome[i].stop)

\* C12: the view response() returns shows the status, output, timeStarted and
\* timeCompleted the invocation had at one instant; it never shows RUNNING
\* with an output or with timeCompleted set.
C12_ConsistentSnapshot ==
    [][\A c \in Pollers :
         (cpc[c] = "resp_output" /\ cpc'[c] # "resp_output")
         => LET v == ResponseModel(c)
            IN  /\ Fields(v.status, v.timeStarted, v.timeCompleted, v.output)
                      \in FieldsSoFar(ctx[c].target)
                /\ v.status = "RUNNING"
                   => v.output = None /\ v.timeCompleted = NoTime]_vars

\* C13: the output of an invocation is set exactly when its status is
\* COMPLETED or ERROR.
C13_OutputIffCompletedOrError ==
    \A i \in 1..nobj :
        return_value[i] # None <=> status[i] \in {"COMPLETED", "ERROR"}

\* C13, amended: the output is None while the status is PENDING, RUNNING or
\* CANCELLED; with status ERROR it is str(e), a string; with status COMPLETED
\* it is what the action returned, None when the action returned None.
C13_OutputFollowsStatus ==
    \A i \in 1..nobj :
        /\ status[i] \in {"PENDING", "RUNNING", "CANCELLED"} => return_value[i] = None
        /\ status[i] = "ERROR"
           => return_value[i] # None /\ return_value[i] = Str(outcome[i].exc)
        /\ status[i] = "COMPLETED" => return_value[i] = outcome[i].val

\* C13 witness: one invocation is COMPLETED with no output, its action having
\* returned None, and another is CANCELLED.
C13_Witness ==
    \E i, j \in 1..nobj :
        /\ status[i] = "COMPLETED"
        /\ outcome[i].kind = "return"
        /\ return_value[i] = None
        /\ status[j] = "CANCELLED"

\* C14: in every state in which nobody holds the invocation's lock,
\* requestedAt is set, startedAt is set exactly when the status is not
\* PENDING, and completedAt is set exactly when the status is terminal.
C14_TimestampsTrackStatus ==
    \A i \in 1..nobj :
        status_lock[i] = Free
        => /\ request_time[i] # NoTime
           /\ start_time[i] # NoTime <=> status[i] # "PENDING"
           /\ end_time[i] # NoTime <=> status[i] \in Terminal

\* C15: a handler leaves the root logger only by line 181 of its own
\* invocation's run(), and once an execution thread has ended, however it
\* ended, its handler is no longer on the root logger and completedAt is set.
C15_HandlerDetached ==
    /\ [][\A i \in Ids :
            (i \in root_handlers /\ i \notin root_handlers') => tpc[i] = "fin_remove"]_vars
    /\ [](\A i \in Ids :
            tpc[i] = "dead" => i \notin root_handlers /\ end_time[i] # NoTime)

\* C16: a record is appended to an invocation's log only while the
\* invocation's lock is held, and never while a reader holds that lock to copy
\* the log; response() reads startedAt and completedAt holding the lock.
C16_FieldsUnderLock ==
    [][/\ \A h \in Ids :
            captured'[h] # captured[h]
            => /\ status_lock[h] # Free
               /\ \A c \in Clients : ~(cpc[c] = "prop_read" /\ ctx[c].target = h)
       /\ \A c \in Pollers :
            (cpc[c] \in {"resp_refs", "resp_end"} /\ cpc'[c] \in {"resp_end", "resp_output_lock"})
            => status_lock[ctx[c].target] = ClientThread(c)]_vars

\* C17: a thread that holds the registry lock is inserting, looking up or
\* copying the values, and holds no invocation's lock.
C17_TwoLevelLocking ==
    \A c \in Clients :
        invocations_lock = ClientThread(c)
        => /\ cpc[c] \in {"append_insert", "get_lookup", "list_copy"}
           /\ \A i \in Ids : status_lock[i] # ClientThread(c)

\* C18: the steps run() takes once the action body has failed leave the
\* registry and every other invocation's status, output, timestamps and log
\* as they were, and the thread that failed ends holding no lock.
C18_FailureContained ==
    /\ [][\A i \in Ids :
            (tpc'[i] # tpc[i] /\ outcome'[i].kind \in {"Exception", "BaseException"})
            => /\ UNCHANGED <<invocations, returned>>
               /\ \A j \in Ids \ {i} :
                    /\ status'[j] = status[j]
                    /\ return_value'[j] = return_value[j]
                    /\ request_time'[j] = request_time[j]
                    /\ start_time'[j] = start_time[j]
                    /\ end_time'[j] = end_time[j]
                    /\ log'[j] = log[j]]_vars
    /\ [](\A i \in Ids :
            tpc[i] = "dead"
            => invocations_lock # InvThread(i)
               /\ \A j \in Ids : status_lock[j] # InvThread(i))

\* C19: what list_invocations returns is the invocations its filters select
\* among the first n of the registry, for some n, in the registry's order,
\* which is the order of insertion (the registry only grows at its end); and
\* it extends what the client's list call before it returned.
C19_ListInRegistrationOrder ==
    [][/\ IsPrefix(invocations, invocations')
       /\ \A c \in Pollers :
            (cpc[c] = "list_next" /\ cpc'[c] = "idle")
            => /\ \E n \in 0..Len(invocations) :
                    ctx[c].views = SelectSeq(SubSeq(invocations, 1, n), Selected)
               /\ ctx[c].listed.made => IsPrefix(ctx[c].listed.ids, ctx[c].views)]_vars

\* C19 witness: two concurrent invoke calls have inserted the second
\* invocation constructed before the first, and a list call that found both
\* is about to return after one that found the first inserted alone.
C19_Witness ==
    \E c \in Pollers :
        /\ cpc[c] = "list_next"
        /\ ctx[c].todo = <<>>
        /\ invocations = <<2, 1>>
        /\ ctx[c].listed.made
        /\ ctx[c].listed.ids = <<2>>
        /\ ctx[c].views = <<2, 1>>

\* C20: the status becomes RUNNING in the step that sets startedAt, a terminal
\* status is set only from RUNNING with startedAt set, and whenever startedAt
\* and completedAt are both set completedAt is not earlier than startedAt, and
\* startedAt is not earlier than requestedAt.
C20_StartBeforeEnd ==
    /\ [][\A i \in Ids :
            /\ (status'[i] # status[i] /\ status'[i] = "RUNNING")
               <=> (start_time'[i] # start_time[i])
            /\ (status'[i] # status[i] /\ status'[i] \in Terminal)
               => status[i] = "RUNNING" /\ start_time[i] # NoTime]_vars
    /\ [](\A i \in Ids :
            /\ status[i] \in Terminal => start_time[i] # NoTime
            /\ (start_time[i] # NoTime /\ end_time[i] # NoTime)
               => end_time[i] >= start_time[i]
            /\ start_time[i] # NoTime
               => request_time[i] # NoTime /\ start_time[i] >= request_time[i])

\* C20 witness: a cancelled invocation's thread has ended, the clock having
\* advanced between startedAt and completedAt.
C20_Witness ==
    \E i \in Ids :
        /\ status[i] = "CANCELLED"
        /\ tpc[i] = "dead"
        /\ end_time[i] > start_time[i]
        /\ start_time[i] >= request_time[i]

\* C21: the thread of an invocation is started only once, and from the state
\* of a thread never started; the bound action ends once, its outcome never
\* replaced; and a start() of an invocation already started raises
\* RuntimeError and leaves the invocation's status, output, timestamps, log
\* and thread as they were.
C21_RunsAtMostOnce ==
    [][/\ \A i \in Ids :
            /\ tpc'[i] # tpc[i]
               => /\ tpc'[i] = "run_addHandler" => tpc[i] = "unstarted"
                  /\ tpc'[i] = "body" => tpc[i] = "run_info"
                  /\ tpc[i] = "dead" => tpc'[i] = "dead"
            /\ ident[i] # NoIdent => ident'[i] = ident[i]
            /\ outcome[i].kind # "none" => outcome'[i] = outcome[i]
       /\ \A c \in Clients :
            (ctx'[c] # ctx[c] /\ ctx'[c].result = "RuntimeError")
            => /\ \E i \in Handles : tpc[i] # "unstarted"
               /\ UNCHANGED <<status, return_value, request_time, start_time,
                              end_time, log, captured, tpc, ident, outcome,
                              root_handlers, status_lock, invocations>>]_vars

\* C21 witness: a start() has been rejected for an invocation whose bound
\* action is executing, started by a holder of its handle before invoke_action
\* reached its own start().
C21_Witness ==
    \E c \in Dispatchers, i \in Ids :
        /\ ctx[c].result = "RuntimeError"
        /\ tpc[i] = "body"
        /\ i \notin returned

\* C22: once the execution thread of an invocation has ended, its status is
\* COMPLETED, CANCELLED or ERROR.
C22_EndsTerminal ==
    \A i \in Ids : tpc[i] = "dead" => status[i] \in Terminal

=============================================================================
